---- MODULE Spec2Model ----
(***************************************************************************)
(* A model of pset_utils: the Figure context manager (the package          *)
(* pset_utils/__init__.py and the earlier figure_setup/_Figure copy in the *)
(* root __init__.py) and the CSV loader numpy_from_csv.                    *)
(*                                                                         *)
(* Python values are records [t, i, s]: t is the type tag, i the integer   *)
(* payload and s the string payload, so that `+` and isinstance can be     *)
(* modelled by what they do on each type.                                  *)
(***************************************************************************)
EXTENDS Integers, Sequences, FiniteSets, TLC

VARIABLES
    module,       \* which copy the process imported: "pset_utils" or "legacy"
    interactive,  \* the class attribute _interactive, per class
    suffix,       \* the class attribute _suffix, per class
    number,       \* the class attribute _number, per class
    plt,          \* legacy only: whether _Figure._plt has been set
    sessions,     \* the session objects constructed so far, in creation order
    figures,      \* the backend's figures, in creation order
    cap,          \* how many figures this run may create
    ext_arg,      \* history: the last argument given to set_extension, per class
    last,         \* the last operation and the backend calls it made
    csv_file,     \* the rows of the file given to numpy_from_csv
    csv_quoting,  \* the quoting policy given to numpy_from_csv
    csv_result    \* what numpy_from_csv returned or raised, once called

vars == <<module, interactive, suffix, number, plt, sessions, figures, cap,
          ext_arg, last, csv_file, csv_quoting, csv_result>>

fig_vars == <<module, interactive, suffix, number, plt, sessions, figures, cap,
              ext_arg, last>>

csv_vars == <<csv_file, csv_quoting, csv_result>>

----------------------------------------------------------------------------
(* Bounds *)

\* the number of sessions a run constructs when it only constructs them
MaxFigures == 2

\* the number of sessions a run constructs when it also runs their scopes
MaxScopes == 1

\* the number of data rows (rows after the header) of a CSV file
MaxRows == 2

----------------------------------------------------------------------------
(* Python values *)

PyNone == [t |-> "NoneType", i |-> 0, s |-> ""]

PyInt(n) == [t |-> "int", i |-> n, s |-> ""]

PyStr(x) == [t |-> "str", i |-> 0, s |-> x]

\* a data series (a list or an array): anything that is neither absent nor a str
PySeries == [t |-> "list", i |-> 0, s |-> ""]

\* a float, kept in tenths
PyFloat(tenths) == [t |-> "float", i |-> tenths, s |-> ""]

Ok(v) == [ok |-> TRUE, val |-> v, err |-> "none"]

Raise(e) == [ok |-> FALSE, val |-> PyNone, err |-> e]

\* a + b: defined on two str and on two numbers, TypeError otherwise
PyAdd(a, b) ==
    IF a.t = "str" /\ b.t = "str" THEN Ok(PyStr(a.s \o b.s))
    ELSE IF a.t = "int" /\ b.t = "int" THEN Ok(PyInt(a.i + b.i))
    ELSE Raise("TypeError")

\* '.{}'.format(x) for the argument types set_extension is given
DotFormat(x) ==
    IF x.t = "str" THEN PyStr("." \o x.s) ELSE PyStr("." \o "None")

----------------------------------------------------------------------------
(* Classes and class attributes *)

Classes == {"Figure", "Figure3d", "_Figure"}

\* the method resolution order of a class, without object
MRO(cls) == IF cls = "Figure3d" THEN <<"Figure3d", "Figure">> ELSE <<cls>>

Attr(v) == [has |-> TRUE, val |-> v]

NoAttr(v) == [has |-> FALSE, val |-> v]

\* cls.attr or self.attr for an instance of cls with no instance attribute:
\* the first class of the MRO that has it
Lookup(attr, cls) ==
    LET mro == MRO(cls)
        k == CHOOSE j \in 1..Len(mro) :
                 /\ attr[mro[j]].has
                 /\ \A h \in 1..(j - 1) : ~attr[mro[h]].has
    IN attr[mro[k]].val

HasAttr(attr, cls) == \E j \in 1..Len(MRO(cls)) : attr[MRO(cls)[j]].has

\* cls.attr = v
SetAttr(attr, cls, v) == [attr EXCEPT ![cls] = Attr(v)]

\* default figure size
FIGSIZE == <<6, 6>>

\* the keyword arguments a caller gives: a figsize or none
NoKwargs == [has_figsize |-> FALSE, figsize |-> <<0, 0>>]

Kwargs(size) == [has_figsize |-> TRUE, figsize |-> size]

CallerKwargs == {NoKwargs, Kwargs(<<4, 3>>)}

\* the positional arguments a caller gives
CallerArgs == {<<>>, <<PyStr("plot")>>, <<PySeries, PySeries>>}

----------------------------------------------------------------------------
(* The last operation *)

NoTarget == [kind |-> "none", projection |-> "none", fig |-> 0]

NoEvent ==
    [op |-> "none", cls |-> "none", sess |-> 0, fig |-> 0,
     kind |-> "none", caller_kwargs |-> NoKwargs,
     figure_called |-> FALSE, figure_kwargs |-> NoKwargs,
     plot_called |-> FALSE, plot_kwargs |-> NoKwargs,
     target |-> NoTarget, flag |-> FALSE, body_raised |-> FALSE,
     exit_ran |-> FALSE, show |-> 0, savefig |-> <<>>,
     close |-> <<>>, err |-> "none"]

----------------------------------------------------------------------------
(* pset_utils/__init__.py: class Figure and class Figure3d *)

\* a session object: its class, how it was constructed, its name attribute
\* (absent for a quick-plot session), its figure and where its scope stands;
\* ctor_flag is history: the interactive flag its class resolved when it was
\* constructed
Session(cls, kind, has_name, name, fig) ==
    [cls |-> cls, kind |-> kind, has_name |-> has_name, name |-> name,
     fig |-> fig, phase |-> "new", ctor_flag |-> Lookup(interactive, cls)]

\* if 'figsize' not in kwargs: kwargs['figsize'] = FIGSIZE
DefaultFigsize(kwargs) ==
    IF ~kwargs.has_figsize THEN Kwargs(FIGSIZE) ELSE kwargs

\* a slip: type(self)._number += 1, as the earlier copy has it
IncrNumberOfType(cls) ==
    SetAttr(number, cls, Lookup(number, cls) + 1)

\* Figure._number += 1
IncrNumber(cls) ==
    SetAttr(number, "Figure", Lookup(number, "Figure") + 1)

\* a slip: the increment dedented out of the `if not args` branch
NumberAfterAnyInit(cls, args) == IncrNumber(cls)

\* the counter after __init__: only the `if not args` branch increments it
NumberAfterInit(cls, args) ==
    IF args = <<>> THEN IncrNumber(cls) ELSE number

\* Figure.__enter__: return self.fig
Figure_enter(s) == [kind |-> "figure", projection |-> "none", fig |-> s.fig]

\* a slip: the override left out, so that the raw figure is returned
Figure3d_enter_raw(s) == Figure_enter(s)

\* Figure3d.__enter__: return self.fig.add_subplot(1, 1, 1, projection="3d")
Figure3d_enter(s) == [kind |-> "subplot", projection |-> "3d", fig |-> s.fig]

\* the name self.name + self._suffix evaluates to, or the error it raises
SaveName(s) ==
    IF ~s.has_name THEN Raise("AttributeError")
    ELSE PyAdd(s.name, Lookup(suffix, s.cls))

\* the backend calls of an exit step and the error it raises
NoCalls == [flag |-> FALSE, show |-> 0, savefig |-> <<>>, close |-> <<>>,
            err |-> "none"]

\* a slip: the flag read when the session was constructed, not on exit
Figure_exit_ctor_flag(s) ==
    LET out == [NoCalls EXCEPT !.flag = s.ctor_flag]
        fname == SaveName(s)
    IN  IF out.flag THEN [out EXCEPT !.show = 1]
        ELSE IF ~fname.ok THEN [out EXCEPT !.err = fname.err]
        ELSE [out EXCEPT !.savefig = <<fname.val>>, !.close = <<s.fig>>]

\* Figure.__exit__: what it calls on the backend and what it raises (the
\* backend's own failures, such as an unwritable path, are not modelled)
Figure_exit(s) ==
    LET out == [NoCalls EXCEPT !.flag = Lookup(interactive, s.cls)]
        fname == SaveName(s)
    IN  IF out.flag THEN [out EXCEPT !.show = 1]
        ELSE IF ~fname.ok THEN [out EXCEPT !.err = fname.err]
        ELSE [out EXCEPT !.savefig = <<fname.val>>, !.close = <<s.fig>>]

\* the backend's figures after the calls of an exit step
CloseAll(figs, closed) ==
    [f \in 1..Len(figs) |->
        IF \E k \in 1..Len(closed) : closed[k] = f
        THEN [figs[f] EXCEPT !.open = FALSE] ELSE figs[f]]

\* what leaves a with statement: the error __exit__ raised, else the body's
\* error (__exit__ returns None, so it is not suppressed)
Propagated(body_raised, exit_err) ==
    IF exit_err # "none" THEN exit_err
    ELSE IF body_raised THEN "BodyError" ELSE "none"

----------------------------------------------------------------------------
(* __init__.py: the earlier copy, figure_setup and class _Figure *)

\* type(self)._number += 1
LegacyIncrNumber(cls) ==
    SetAttr(number, cls, Lookup(number, cls) + 1)

\* _Figure.__exit__: self.fig.savefig(self.name), without a suffix
LegacyFigure_exit(s) ==
    LET out == [NoCalls EXCEPT !.flag = Lookup(interactive, s.cls)]
    IN  IF out.flag THEN [out EXCEPT !.show = 1]
        ELSE [out EXCEPT !.savefig = <<s.name>>, !.close = <<s.fig>>]

\* figure_setup(pyplot, interactive)
figure_setup(b) ==
    /\ module = "legacy"
    /\ plt' = TRUE
    /\ interactive' = SetAttr(interactive, "_Figure", b)
    /\ last' = [NoEvent EXCEPT !.op = "figure_setup"]
    /\ UNCHANGED <<module, suffix, number, sessions, figures, cap, ext_arg>>
    /\ UNCHANGED csv_vars

\* _Figure.__init__(self, name=None, *args, **kwargs); the class is handed
\* out by figure_setup, so _plt is set by the time it is called
LegacyFigure_init(name, kwargs) ==
    LET cls == "_Figure"
        fig == Len(figures) + 1
        anon == (name = PyNone)
    IN  /\ module = "legacy"
        /\ plt
        /\ Len(figures) < cap
        /\ number' = IF anon THEN LegacyIncrNumber(cls) ELSE number
        /\ figures' = Append(figures, [open |-> TRUE])
        /\ sessions' = Append(sessions,
               Session(cls, IF anon THEN "anon" ELSE "named", TRUE,
                       IF anon THEN PyInt(Lookup(number, cls)) ELSE name, fig))
        /\ last' = [NoEvent EXCEPT !.op = "init", !.sess = Len(sessions) + 1,
                       !.kind = IF anon THEN "anon" ELSE "named",
                       !.caller_kwargs = kwargs, !.figure_called = TRUE,
                       !.figure_kwargs = DefaultFigsize(kwargs)]
        /\ UNCHANGED <<module, interactive, suffix, plt, cap, ext_arg>>
        /\ UNCHANGED csv_vars

----------------------------------------------------------------------------
(* Construction, scope entry and scope exit *)

\* the __enter__ and the __exit__ an instance of its class resolves to
Enter_of(s) == IF s.cls = "Figure3d" THEN Figure3d_enter(s) ELSE Figure_enter(s)

Exit_of(s) == IF s.cls = "_Figure" THEN LegacyFigure_exit(s) ELSE Figure_exit(s)

\* Figure.__init__(self, *args, **kwargs), for cls in {Figure, Figure3d}.
\* plot_ok is whether the backend's plot accepts the quick-plot arguments.
Figure_init(cls, args, kwargs, plot_ok) ==
    LET fig == Len(figures) + 1
        ev  == [NoEvent EXCEPT !.op = "init", !.caller_kwargs = kwargs,
                               !.figure_called = TRUE]
    IN  /\ module = "pset_utils"
        /\ Len(figures) < cap
        /\ IF args = <<>>
           THEN \* self.name = self._number; Figure._number += 1
                /\ plot_ok
                /\ figures' = Append(figures, [open |-> TRUE])
                /\ sessions' = Append(sessions,
                       Session(cls, "anon", TRUE,
                               PyInt(Lookup(number, cls)), fig))
                /\ last' = [ev EXCEPT !.kind = "anon",
                               !.sess = Len(sessions) + 1,
                               !.figure_kwargs = DefaultFigsize(kwargs)]
           ELSE IF args[1].t = "str"
           THEN \* self.name = args[0]; args = args[1:]
                /\ plot_ok
                /\ figures' = Append(figures, [open |-> TRUE])
                /\ sessions' = Append(sessions,
                       Session(cls, "named", TRUE, args[1], fig))
                /\ last' = [ev EXCEPT !.kind = "named",
                               !.sess = Len(sessions) + 1,
                               !.figure_kwargs = DefaultFigsize(kwargs)]
           ELSE \* self.fig = plt.figure(); with self: plt.plot(*args, **kwargs)
                LET s   == Session(cls, "quick", FALSE, PyNone, fig)
                    out == Exit_of(s)
                    err == Propagated(~plot_ok, out.err)
                IN  /\ figures' = CloseAll(Append(figures, [open |-> TRUE]),
                                           out.close)
                    /\ sessions' = IF err = "none"
                                   THEN Append(sessions, s) ELSE sessions
                    /\ last' = [ev EXCEPT !.kind = "quick",
                                   !.sess = IF err = "none"
                                            THEN Len(sessions) + 1 ELSE 0,
                                   !.cls = cls,
                                   !.figure_kwargs = NoKwargs,
                                   !.target = Enter_of(s),
                                   !.plot_called = TRUE,
                                   !.plot_kwargs = kwargs,
                                   !.body_raised = ~plot_ok,
                                   !.exit_ran = TRUE,
                                   !.flag = out.flag,
                                   !.show = out.show,
                                   !.savefig = out.savefig,
                                   !.close = out.close,
                                   !.err = err]
        /\ number' = NumberAfterInit(cls, args)
        /\ UNCHANGED <<module, interactive, suffix, plt, cap, ext_arg>>
        /\ UNCHANGED csv_vars

\* Figure(*args, **kwargs)
NewFigure ==
    \E args \in CallerArgs, kwargs \in CallerKwargs, plot_ok \in BOOLEAN :
        Figure_init("Figure", args, kwargs, plot_ok)

\* Figure3d(*args, **kwargs)
NewFigure3d ==
    \E args \in CallerArgs, kwargs \in CallerKwargs, plot_ok \in BOOLEAN :
        Figure_init("Figure3d", args, kwargs, plot_ok)

\* Figure.fig_3d(*args, **kwargs): return Figure3d(*args, **kwargs)
fig_3d ==
    \E args \in CallerArgs, kwargs \in CallerKwargs, plot_ok \in BOOLEAN :
        Figure_init("Figure3d", args, kwargs, plot_ok)

\* Figure = figure_setup(pyplot, interactive)
FigureSetup == \E b \in BOOLEAN : figure_setup(b)

\* Figure(name, **kwargs) on the class figure_setup returned
NewLegacyFigure ==
    \E name \in {PyNone, PyStr("plot")}, kwargs \in CallerKwargs :
        LegacyFigure_init(name, kwargs)

\* with session as target: the scope is entered
Enter(i) ==
    /\ sessions[i].phase = "new"
    /\ sessions' = [sessions EXCEPT ![i].phase = "entered"]
    /\ last' = [NoEvent EXCEPT !.op = "enter", !.sess = i,
                               !.target = Enter_of(sessions[i])]
    /\ UNCHANGED <<module, interactive, suffix, number, plt, figures, cap,
                   ext_arg>>
    /\ UNCHANGED csv_vars

\* the scope is left, its body having completed or raised
Exit(i, body_raised) ==
    LET s   == sessions[i]
        out == Exit_of(s)
    IN  /\ s.phase = "entered"
        /\ sessions' = [sessions EXCEPT ![i].phase = "exited"]
        /\ figures' = CloseAll(figures, out.close)
        /\ last' = [NoEvent EXCEPT !.op = "exit", !.sess = i,
                                   !.body_raised = body_raised,
                                   !.exit_ran = TRUE,
                                   !.flag = out.flag, !.show = out.show,
                                   !.savefig = out.savefig,
                                   !.close = out.close,
                                   !.err = Propagated(body_raised, out.err)]
        /\ UNCHANGED <<module, interactive, suffix, number, plt, cap, ext_arg>>
        /\ UNCHANGED csv_vars

EnterScope == \E i \in 1..Len(sessions) : Enter(i)

ExitScope == \E i \in 1..Len(sessions), body_raised \in BOOLEAN :
                 Exit(i, body_raised)

----------------------------------------------------------------------------
(* The setters *)

\* a slip: `if suffix` in place of `if suffix is not None`
ExtensionSuffixIfTruthy(arg) ==
    IF arg # PyNone /\ arg # PyStr("") THEN DotFormat(arg) ELSE PyStr("")

\* the suffix set_extension stores
ExtensionSuffix(arg) == IF arg # PyNone THEN DotFormat(arg) ELSE PyStr("")

\* Figure.set_interactive(interactive), called on cls
set_interactive(cls, b) ==
    /\ module = "pset_utils"
    /\ interactive' = SetAttr(interactive, cls, b)
    /\ last' = [NoEvent EXCEPT !.op = "set_interactive"]
    /\ UNCHANGED <<module, suffix, number, plt, sessions, figures, cap, ext_arg>>
    /\ UNCHANGED csv_vars

\* Figure.set_extension(suffix), called on cls
set_extension(cls, arg) ==
    /\ module = "pset_utils"
    /\ suffix' = SetAttr(suffix, cls, ExtensionSuffix(arg))
    /\ ext_arg' = SetAttr(ext_arg, cls, arg)
    /\ last' = [NoEvent EXCEPT !.op = "set_extension"]
    /\ UNCHANGED <<module, interactive, number, plt, sessions, figures, cap>>
    /\ UNCHANGED csv_vars

\* the classes a caller can name in the package
PackageClasses == {"Figure", "Figure3d"}

\* the values given to set_extension
ExtensionArgs == {PyNone, PyStr(""), PyStr("png")}

SetInteractive == \E cls \in PackageClasses, b \in BOOLEAN : set_interactive(cls, b)

SetExtension == \E cls \in PackageClasses, arg \in ExtensionArgs : set_extension(cls, arg)

----------------------------------------------------------------------------
(* pset_utils/__init__.py: numpy_from_csv *)

\* a field of the file as written: its text, and whether it stands in quotes
Field(quoted, text) == [quoted |-> quoted, text |-> text]

U(text) == Field(FALSE, text)

Q(text) == Field(TRUE, text)

\* float(text), on the texts the files are written with
ParseFloat(text) ==
    IF text = "1" THEN Ok(PyFloat(10))
    ELSE IF text = "2.5" THEN Ok(PyFloat(25))
    ELSE IF text = "3" THEN Ok(PyFloat(30))
    ELSE Raise("ValueError")

\* csv.reader on one field: QUOTE_NONNUMERIC converts every unquoted field to
\* float, the other policies return every field as a str
ReadField(quoting, f) ==
    IF quoting = "QUOTE_NONNUMERIC" /\ ~f.quoted
    THEN ParseFloat(f.text) ELSE Ok(PyStr(f.text))

\* data = list(csv.reader(f, quoting=quoting))
ReadRows(quoting, file) ==
    IF \E r \in 1..Len(file) : \E k \in 1..Len(file[r]) :
           ~ReadField(quoting, file[r][k]).ok
    THEN [ok |-> FALSE, err |-> "ValueError", data |-> <<>>]
    ELSE [ok |-> TRUE, err |-> "none",
          data |-> [r \in 1..Len(file) |->
                       [k \in 1..Len(file[r]) |->
                           ReadField(quoting, file[r][k]).val]]]

\* a slip: type(x) for every value, without the object fallback
DtypeOfType(x) == x.t

\* type(x) if isinstance(x, (int, float)) else object
DtypeOf(x) == IF x.t \in {"int", "float"} THEN x.t ELSE "object"

\* a slip: a header-only file given an empty schema, not an error
SchemaRowOrNone(data) ==
    IF Len(data) < 1 THEN [ok |-> FALSE, err |-> "IndexError", row |-> <<>>]
    ELSE IF Len(data) < 2 THEN [ok |-> TRUE, err |-> "none", row |-> <<>>]
    ELSE [ok |-> TRUE, err |-> "none", row |-> data[2]]

\* dtypes = [... for x in data[1]]: the row the schema is inferred from
SchemaRow(data) ==
    IF Len(data) < 2 THEN [ok |-> FALSE, err |-> "IndexError", row |-> <<>>]
    ELSE [ok |-> TRUE, err |-> "none", row |-> data[2]]

\* numpy's conversion of one value to a field of the given dtype
Coerce(dtype, x) ==
    IF dtype = "object" THEN Ok(x)
    ELSE IF x.t = "float" THEN Ok(x)
    ELSE IF x.t = "str" THEN ParseFloat(x.s)
    ELSE Raise("TypeError")

Min(a, b) == IF a < b THEN a ELSE b

NoResult ==
    [called |-> FALSE, ok |-> FALSE, err |-> "none", names |-> <<>>,
     dtypes |-> <<>>, rows |-> <<>>]

Failed(e) == [NoResult EXCEPT !.called = TRUE, !.err = e]

\* np.array([tuple(x) for x in data[1:]], dtype=list(zip(data[0], dtypes)))
StructuredArray(data, dtypes) ==
    LET n     == Min(Len(data[1]), Len(dtypes))
        names == [k \in 1..n |-> data[1][k]]
        rows  == [r \in 1..(Len(data) - 1) |-> data[r + 1]]
    IN  IF \E k \in 1..n : names[k].t # "str" THEN Failed("TypeError")
        ELSE IF \E j, k \in 1..n : j # k /\ names[j] = names[k]
        THEN Failed("ValueError")
        ELSE IF \E r \in 1..Len(rows) : Len(rows[r]) # n
        THEN Failed("ValueError")
        ELSE IF \E r \in 1..Len(rows) : \E k \in 1..n :
                    ~Coerce(dtypes[k], rows[r][k]).ok
        THEN Failed("ValueError")
        ELSE [called |-> TRUE, ok |-> TRUE, err |-> "none",
              names |-> [k \in 1..n |-> names[k].s],
              dtypes |-> [k \in 1..n |-> dtypes[k]],
              rows |-> [r \in 1..Len(rows) |->
                           [k \in 1..n |-> Coerce(dtypes[k], rows[r][k]).val]]]

\* numpy_from_csv(filename, quoting=csv.QUOTE_NONNUMERIC)
numpy_from_csv(file, quoting) ==
    LET read   == ReadRows(quoting, file)
        schema == SchemaRow(read.data)
    IN  IF ~read.ok THEN Failed(read.err)
        ELSE IF ~schema.ok THEN Failed(schema.err)
        ELSE StructuredArray(read.data,
                 [k \in 1..Len(schema.row) |-> DtypeOf(schema.row[k])])

\* the header rows and the data rows the files are written with
HeaderRows ==
    {<<U("a"), U("b"), U("c")>>, <<Q("a"), Q("b"), Q("c")>>, <<Q("a"), Q("b")>>,
     <<Q("a"), Q("a"), Q("c")>>, <<U("1"), Q("b"), Q("c")>>}

DataRows ==
    {<<U("1"), U("2.5"), U("x")>>, <<U("1"), U("2.5"), Q("x")>>,
     <<U("3"), Q("1"), Q("y")>>, <<Q("x"), U("3"), U("1")>>,
     <<U("1"), U("2.5")>>}

\* the files with at most n data rows after the header
RECURSIVE DataFiles(_)
DataFiles(n) ==
    IF n = 0 THEN {<<>>}
    ELSE LET shorter == DataFiles(n - 1)
         IN  shorter \cup {Append(f, r) : f \in shorter, r \in DataRows}

Files == {<<>>} \cup {<<h>> \o d : h \in HeaderRows, d \in DataFiles(MaxRows)}

\* the call numpy_from_csv(filename) or numpy_from_csv(filename, quoting)
LoadCsv ==
    /\ ~csv_result.called
    /\ csv_result' = numpy_from_csv(csv_file, csv_quoting)
    /\ UNCHANGED <<csv_file, csv_quoting>>
    /\ UNCHANGED fig_vars

----------------------------------------------------------------------------
(* The process *)

InitFigures ==
    /\ module \in {"pset_utils", "legacy"}
    /\ interactive = [c \in Classes |->
                         IF c = "Figure" THEN Attr(TRUE) ELSE NoAttr(FALSE)]
    /\ suffix = [c \in Classes |->
                    IF c = "Figure" THEN Attr(PyStr("")) ELSE NoAttr(PyNone)]
    /\ number = [c \in Classes |->
                    IF c = "Figure3d" THEN NoAttr(0) ELSE Attr(0)]
    /\ plt = FALSE
    /\ sessions = <<>>
    /\ figures = <<>>
    /\ ext_arg = [c \in Classes |-> NoAttr(PyNone)]
    /\ last = NoEvent

NoCsv ==
    /\ csv_file = <<>>
    /\ csv_quoting = "QUOTE_NONNUMERIC"
    /\ csv_result = NoResult

\* sessions are constructed and their scopes run
Init == InitFigures /\ cap = MaxScopes /\ NoCsv

Next ==
    \/ NewFigure
    \/ NewFigure3d
    \/ fig_3d
    \/ EnterScope
    \/ ExitScope
    \/ SetInteractive
    \/ SetExtension
    \/ FigureSetup
    \/ NewLegacyFigure

Spec == Init /\ [][Next]_vars

\* sessions are constructed, between setter calls
InitNames == InitFigures /\ cap = MaxFigures /\ NoCsv

NextNames ==
    \/ NewFigure
    \/ NewFigure3d
    \/ fig_3d
    \/ SetInteractive
    \/ SetExtension
    \/ FigureSetup
    \/ NewLegacyFigure

SpecNames == InitNames /\ [][NextNames]_vars

\* a file is loaded
InitCsv ==
    /\ InitFigures /\ module = "pset_utils" /\ cap = 0
    /\ csv_file \in Files
    /\ csv_quoting \in {"QUOTE_NONNUMERIC", "QUOTE_MINIMAL"}
    /\ csv_result = NoResult

NextCsv == LoadCsv

SpecCsv == InitCsv /\ [][NextCsv]_vars

----------------------------------------------------------------------------
(* Properties of session naming *)

\* the session the last operation acted on
LastSession == sessions[last.sess]

\* the class whose counter the module's sessions read
CounterClasses == IF module = "legacy" THEN {"_Figure"} ELSE PackageClasses

\* the number of anonymous sessions constructed before session i
AnonBefore(i) == Cardinality({j \in 1..(i - 1) : sessions[j].kind = "anon"})

AnonNamesInOrder ==
    /\ \A i \in 1..Len(sessions) :
           sessions[i].kind = "anon" => sessions[i].name = PyInt(AnonBefore(i))
    /\ \A i, j \in 1..Len(sessions) :
           (i # j /\ sessions[i].kind = "anon" /\ sessions[j].kind = "anon")
               => sessions[i].name # sessions[j].name

CounterNeverDecreases ==
    \A c \in CounterClasses : Lookup(number', c) >= Lookup(number, c)

\* C1: the k-th anonymous construction, counting from 0, is named k, whatever
\* named, quick-plot and 3-D constructions and setter calls come between; no
\* two anonymous sessions share a name and the counter never decreases.
C1_AnonymousNames == []AnonNamesInOrder /\ [][CounterNeverDecreases]_vars

\* two anonymous sessions, one standard and one 3-D, named 0 and 1, with both
\* setters called before the second was constructed
C1_Witness ==
    /\ module = "pset_utils"
    /\ Len(sessions) = 2
    /\ sessions[1].cls = "Figure3d" /\ sessions[1].name = PyInt(0)
    /\ sessions[2].cls = "Figure" /\ sessions[2].name = PyInt(1)
    /\ sessions[1].ctor_flag /\ ~sessions[2].ctor_flag
    /\ ext_arg["Figure"] = Attr(PyStr("png"))

----------------------------------------------------------------------------
(* Properties of the exit step *)

\* the caller's with statement on a session of the package has just been left
PackageExit == module = "pset_utils" /\ last.op = "exit"

\* str(name) + suffix: the file name <name><suffix> of a session
FileName(s) ==
    (IF s.name.t = "str" THEN s.name.s ELSE ToString(s.name.i))
        \o Lookup(suffix, s.cls).s

\* C2: an exit with the interactive flag true writes no file, an exit with
\* the flag false writes exactly one file, named <name><suffix>, for every
\* session however it was constructed.
C2_ExitWritesOneFile ==
    PackageExit =>
        IF Lookup(interactive, LastSession.cls)
        THEN last.savefig = <<>>
        ELSE /\ Len(last.savefig) = 1
             /\ LastSession.has_name
             /\ last.savefig[1] = PyStr(FileName(LastSession))

\* the last argument of set_extension that the class of s resolves
ExtensionOf(s, arg) ==
    HasAttr(ext_arg, s.cls) /\ Lookup(ext_arg, s.cls) = arg

\* a non-interactive session named "plot" has just left its scope
PlotSaved ==
    /\ PackageExit
    /\ LastSession.kind = "named" /\ LastSession.name = PyStr("plot")
    /\ ~Lookup(interactive, LastSession.cls)

\* C3 as stated: after set_extension("png") the session "plot" is saved to
\* "plot.png"; after set_extension(None) or set_extension("") to "plot".
C3_EmptyDisablesSuffix ==
    PlotSaved =>
        /\ ExtensionOf(LastSession, PyStr("png"))
               => last.savefig = <<PyStr("plot.png")>>
        /\ (ExtensionOf(LastSession, PyNone) \/ ExtensionOf(LastSession, PyStr("")))
               => last.savefig = <<PyStr("plot")>>

\* C3 as amended: after set_extension("png") the session "plot" is saved to
\* "plot.png" and after set_extension(None) to "plot", but after
\* set_extension("") it is saved to "plot.": only None disables the suffix.
C3_OnlyNoneDisablesSuffix ==
    PlotSaved =>
        /\ ExtensionOf(LastSession, PyStr("png"))
               => last.savefig = <<PyStr("plot.png")>>
        /\ ExtensionOf(LastSession, PyNone)
               => last.savefig = <<PyStr("plot")>>
        /\ ExtensionOf(LastSession, PyStr(""))
               => last.savefig = <<PyStr("plot.")>>

\* "plot" saved after set_extension("")
C3_Witness ==
    /\ PlotSaved
    /\ ExtensionOf(LastSession, PyStr(""))
    /\ last.savefig = <<PyStr("plot.")>>

\* C4: on every exit path the exit step runs; in interactive mode the figure
\* is shown and stays open, in non-interactive mode it is saved to
\* <name><suffix> and closed, so that it is never still open afterwards; an
\* error of the body still propagates.
C4_ExitShowsOrSavesAndCloses ==
    PackageExit =>
        /\ last.exit_ran
        /\ IF Lookup(interactive, LastSession.cls)
           THEN /\ last.show = 1
                /\ figures[LastSession.fig].open
           ELSE /\ last.savefig = <<PyStr(FileName(LastSession))>>
                /\ last.close = <<LastSession.fig>>
                /\ ~figures[LastSession.fig].open
        /\ last.body_raised => last.err # "none"

\* C10, the exit step: a named session's exit shows when the flag its class
\* resolves is true as the scope is left, and otherwise saves to the name
\* followed by the suffix its class resolves as the scope is left.
ExitReadsCurrentSettings ==
    (PackageExit /\ LastSession.kind = "named") =>
        IF Lookup(interactive, LastSession.cls)
        THEN last.show = 1 /\ last.savefig = <<>>
        ELSE /\ last.show = 0
             /\ last.savefig =
                    <<PyStr(LastSession.name.s \o Lookup(suffix, LastSession.cls).s)>>

\* C10, the name: no operation changes the name of a session
NameIsFixed ==
    \A i \in 1..Len(sessions) :
        /\ sessions'[i].has_name = sessions[i].has_name
        /\ sessions'[i].name = sessions[i].name

----------------------------------------------------------------------------
(* Properties of the 3-D variant *)

\* what entering the scope of s is to yield
ExpectedTarget(s) ==
    IF s.cls = "Figure3d"
    THEN [kind |-> "subplot", projection |-> "3d", fig |-> s.fig]
    ELSE [kind |-> "figure", projection |-> "none", fig |-> s.fig]

EnterYieldsTarget ==
    /\ (last.op = "enter" /\ module = "pset_utils")
           => last.target = ExpectedTarget(LastSession)
    /\ (last.op = "init" /\ last.kind = "quick")
           => /\ last.target.fig = Len(figures)
              /\ last.target.projection =
                     (IF last.cls = "Figure3d" THEN "3d" ELSE "none")

\* a 3-D session is named and counted as a standard one is
ConstructedAlike ==
    (last.op = "init" /\ module = "pset_utils" /\ last.sess > 0) =>
        /\ LastSession.kind = "anon"
               => /\ LastSession.name = PyInt(AnonBefore(last.sess))
                  /\ Lookup(number, "Figure") = AnonBefore(last.sess) + 1
        /\ LastSession.kind = "named" => LastSession.name = PyStr("plot")
        /\ LastSession.kind # "quick"
               => last.figure_kwargs =
                      (IF last.caller_kwargs.has_figsize
                       THEN last.caller_kwargs ELSE Kwargs(<<6, 6>>))

\* the exit step of a standard session with the name of s
StandardExit(s) == Figure_exit([s EXCEPT !.cls = "Figure"])

ExitsAsStandard(s) ==
    /\ last.flag = StandardExit(s).flag
    /\ last.show = StandardExit(s).show
    /\ last.savefig = StandardExit(s).savefig
    /\ last.close = StandardExit(s).close

OwnSettings == interactive["Figure3d"].has \/ suffix["Figure3d"].has

\* the exit of a 3-D session, from the settings its own class resolves
ExitsByOwnSettings(s) ==
    IF Lookup(interactive, "Figure3d")
    THEN last.show = 1 /\ last.savefig = <<>> /\ last.close = <<>>
    ELSE /\ last.show = 0
         /\ s.kind = "named"
                => /\ last.savefig =
                          <<PyStr(s.name.s \o Lookup(suffix, "Figure3d").s)>>
                   /\ last.close = <<s.fig>>

----------------------------------------------------------------------------
(* Properties of construction and of the configuration *)

\* C8: every construction creates its figure with figsize (6, 6) when the
\* caller gives none and with the caller's figsize when one is given.
C8_FigsizeDefault ==
    (last.op = "init" /\ last.figure_called) =>
        last.figure_kwargs =
            (IF last.caller_kwargs.has_figsize
             THEN last.caller_kwargs ELSE Kwargs(<<6, 6>>))

Setters == {"set_interactive", "set_extension"}

Defaults ==
    /\ Lookup(interactive, "Figure") = TRUE
    /\ Lookup(suffix, "Figure") = PyStr("")
    /\ Lookup(number, "Figure") = 0

OnlySettersMutate ==
    (module = "pset_utils"
        /\ (interactive' # interactive \/ suffix' # suffix \/ number' # number))
    => last'.op \in Setters

\* C9 as stated: the flag, the suffix and the counter start at true, empty
\* and 0 and only the setters change them.
C9_OnlySettersMutate == Defaults /\ [][OnlySettersMutate]_vars

SettersAndAnonymousInitMutate ==
    module = "pset_utils" =>
        /\ interactive' # interactive => last'.op = "set_interactive"
        /\ suffix' # suffix => last'.op = "set_extension"
        /\ number' # number
               => /\ last'.op = "init" /\ last'.kind = "anon"
                  /\ Lookup(number', "Figure") = Lookup(number, "Figure") + 1
        /\ last'.op \in {"enter", "exit"}
               => <<interactive, suffix, number>>' = <<interactive, suffix, number>>

\* C9 as amended: the flag, the suffix and the counter start at true, empty
\* and 0; only set_interactive changes the flag and only set_extension the
\* suffix; the counter is changed by the construction of an anonymous
\* session, which adds one, and by nothing else; entering and leaving a
\* scope change none of the three.
C9_SettersAndAnonymousInitMutate ==
    Defaults /\ [][SettersAndAnonymousInitMutate]_vars

\* a scope has been left with the flag and the suffix set and the counter at 1
C9_Witness ==
    /\ PackageExit
    /\ Lookup(number, "Figure") = 1
    /\ Lookup(interactive, "Figure") = FALSE
    /\ Lookup(suffix, "Figure") = PyStr(".png")

----------------------------------------------------------------------------
(* Properties of numpy_from_csv *)

DefaultLoad == csv_result.called /\ csv_quoting = "QUOTE_NONNUMERIC"

Texts(row) == [k \in 1..Len(row) |-> row[k].text]

\* the file of the example: header a,b,c and first data row 1,2.5,x
ExampleFile ==
    /\ Len(csv_file) = 2
    /\ Texts(csv_file[1]) = <<"a", "b", "c">>
    /\ Texts(csv_file[2]) = <<"1", "2.5", "x">>

Unquoted(row) == {k \in 1..Len(row) : ~row[k].quoted}

NumericTexts == {"1", "2.5", "3"}

\* every row of the record set holds floats in the float fields and the
\* values as read (a float if unquoted, the text if quoted) in the object fields
RowsCoerced ==
    /\ Len(csv_result.rows) = Len(csv_file) - 1
    /\ \A r \in 1..Len(csv_result.rows) : \A k \in 1..Len(csv_result.dtypes) :
           IF csv_result.dtypes[k] = "float"
           THEN /\ csv_result.rows[r][k].t = "float"
                /\ csv_file[r + 1][k].text \in NumericTexts
           ELSE IF csv_file[r + 1][k].quoted
           THEN csv_result.rows[r][k] = PyStr(csv_file[r + 1][k].text)
           ELSE csv_result.rows[r][k].t = "float"

C6_NoDataRowFails ==
    (csv_result.called /\ Len(csv_file) <= 1) =>
        /\ ~csv_result.ok
        /\ csv_result.err \in {"IndexError", "ValueError"}
        /\ csv_result.rows = <<>>

\* a header-only file has failed on the absent first data row
C6_Witness ==
    /\ csv_result.called
    /\ Len(csv_file) = 1
    /\ csv_result.err = "IndexError"

====
